---- MODULE Spec2Model ----
(***************************************************************************)
(* Model of app/whisper_service.py (TranscriptionService) of memo-notes:   *)
(* the lazy, lock-guarded load of the Whisper model and the transcription  *)
(* pipeline that stages an upload, runs inference on the executor and      *)
(* removes the staged file.                                                *)
(*                                                                         *)
(* The service runs on one asyncio event loop: the code between two await  *)
(* points runs without interleaving.  Every action below is therefore one  *)
(* such segment of a call, from the point where the coroutine is resumed   *)
(* to the point where it suspends again or finishes.  The suspension       *)
(* points are: waiting for _load_lock (line 40), waiting for the           *)
(* dispatched whisper.load_model (line 67), waiting for upload.read()      *)
(* (line 92) and waiting for the dispatched _model.transcribe (line 98).   *)
(* A task can be cancelled at any of them.                                 *)
(***************************************************************************)
EXTENDS Integers, Sequences, FiniteSets, TLC

\* Number of calls (warm_up or transcribe_upload) made on the service object.
NumCalls == 2
\* Longest text an inference result carries.
MaxTextLen == 2

Calls == 1..NumCalls

VARIABLES
    whisper,            \* module global: TRUE iff `import whisper` succeeded
    device_preference,  \* self.device_preference
    _model,             \* self._model: 0 is None, k the object of the k-th load_model call
    _load_error,        \* self._load_error
    _load_lock,         \* self._load_lock: [locked, waiters]
    loadCalls,          \* number of times whisper.load_model was invoked
    pc,                 \* position of each call
    kind,               \* entry point of each call
    filename,           \* upload.filename of each call
    file_bytes,         \* bytes upload.read() returned to each call
    files,              \* the temporary file of each call
    removeCalls,        \* number of os.remove calls each call made
    job,                \* the executor work item each call waits for
    result,             \* how the dispatched inference ended for each call
    ens,                \* how _ensure_model_loaded ended for each call
    outcome             \* how each call ended

vars == <<whisper, device_preference, _model, _load_error, _load_lock, loadCalls,
          pc, kind, filename, file_bytes, files, removeCalls, job,
          result, ens, outcome>>

----------------------------------------------------------------------------
\* Values

\* Python's None where a string is expected.
None == "None"

\* An absent error (self._load_error = None, no exception raised).
NoError == [id |-> 0, type |-> "None", msg |-> "", cause |-> ""]

\* class TranscriptionError(RuntimeError).  id is the identity of the object:
\* a call constructs at most one, so the constructing call identifies it.
TranscriptionError(id, msg, cause) ==
    [id |-> id, type |-> "TranscriptionError", msg |-> msg, cause |-> cause]

\* An exception raised by a collaborator (torch, whisper, the upload).
Exc(msg) == [id |-> 0, type |-> "Exception", msg |-> msg, cause |-> ""]

\* asyncio.CancelledError, thrown into a task cancelled at an await.
CancelledError == [id |-> 0, type |-> "CancelledError", msg |-> "", cause |-> ""]

\* Python truthiness of an optional string.
Truthy(s) == s # None /\ s # ""

Filenames == {None, "", "memo.wav"}
DevicePreferences == {None, "cpu"}
UploadContents == {<<>>, <<1>>, <<2, 3>>}

Chars == {" ", "a"}
Texts == UNION {[1..n -> Chars] : n \in 0..MaxTextLen}

\* What _model.transcribe can give back: a non-dict, a dict without "text",
\* or a dict whose "text" is a string.
NotADict == [dict |-> FALSE, has_text |-> FALSE, text |-> <<>>]
NoTextDict == [dict |-> TRUE, has_text |-> FALSE, text |-> <<>>]
TextDict(t) == [dict |-> TRUE, has_text |-> TRUE, text |-> t]
InferenceResults == {NotADict, NoTextDict} \cup {TextDict(t) : t \in Texts}

NoFile == [exists |-> FALSE, content |-> <<>>]
NoJob == [task |-> "none", status |-> "none", device |-> None, n |-> 0]
NoEns == [status |-> "none", err |-> NoError, model |-> 0]
NoOutcome == [status |-> "pending", err |-> NoError, value |-> <<>>]

\* str.strip() over the model's alphabet.
RECURSIVE LStrip(_)
LStrip(t) == IF t # <<>> /\ Head(t) = " " THEN LStrip(Tail(t)) ELSE t

RECURSIVE RStrip(_)
RStrip(t) ==
    IF t # <<>> /\ t[Len(t)] = " " THEN RStrip(SubSeq(t, 1, Len(t) - 1)) ELSE t

Strip(t) == RStrip(LStrip(t))

RemoveFirst(s, c) == SelectSeq(s, LAMBDA x : x # c)

----------------------------------------------------------------------------
\* TranscriptionService._ensure_model_loaded, segment by segment.  A segment
\* gives the loader's fields as it leaves them and how it ends:
\*   exit = "return" | "raise" | "await_lock" | "await_load"

Outcomes(exit, m, le, lock, raised, device) ==
    [exit |-> exit, model |-> m, load_error |-> le, lock |-> lock,
     raised |-> raised, device |-> device]

\* Lines 35-38: the two unsynchronised fast-path checks.
EnsureFast(m, le) ==
    IF m # 0 THEN "return"
    ELSE IF le # NoError THEN "raise"
    ELSE "slow"

\* Lines 57-62: the device is the preference when one is given, else "cuda"
\* when torch was imported and torch.cuda.is_available() says so, else "cpu".
\* The probe is only evaluated when there is no preference and torch imported.
ProbeRaises(pref, torch, probe) == ~Truthy(pref) /\ torch /\ probe = "raise"

SelectDevice(pref, torch, probe) ==
    IF Truthy(pref) THEN pref
    ELSE IF torch /\ probe = "True" THEN "cuda"
    ELSE "cpu"

\* GuardedSection without the re-check of _load_error at lines 43-44.
GuardedSectionNoErrorRecheck(m, le, held, w, pref, torch, probe, eid) ==
    LET released == [held EXCEPT !.locked = FALSE]
    IN  IF m # 0 THEN Outcomes("return", m, le, released, NoError, None)
        ELSE IF ~w THEN
            Outcomes("raise", m, TranscriptionError(eid, "not installed", ""), released,
                     TranscriptionError(eid, "not installed", ""), None)
        ELSE IF ProbeRaises(pref, torch, probe) THEN
            Outcomes("raise", m, le, released, Exc("cuda probe failed"), None)
        ELSE Outcomes("await_load", m, le, held, NoError,
                      SelectDevice(pref, torch, probe))

\* GuardedSection without the re-check of _model at lines 41-42.
GuardedSectionNoModelRecheck(m, le, held, w, pref, torch, probe, eid) ==
    LET released == [held EXCEPT !.locked = FALSE]
    IN  IF le # NoError THEN Outcomes("raise", m, le, released, le, None)
        ELSE IF ~w THEN
            Outcomes("raise", m, TranscriptionError(eid, "not installed", ""), released,
                     TranscriptionError(eid, "not installed", ""), None)
        ELSE IF ProbeRaises(pref, torch, probe) THEN
            Outcomes("raise", m, le, released, Exc("cuda probe failed"), None)
        ELSE Outcomes("await_load", m, le, held, NoError,
                      SelectDevice(pref, torch, probe))

\* Lines 41-64, run with the lock held (`held` is the lock as acquired): the
\* re-check of both fields, the check of the whisper import, the device
\* selection, up to the dispatch of load_model.  Leaving the `async with`
\* block by return or by an exception releases the lock.
GuardedSection(m, le, held, w, pref, torch, probe, eid) ==
    LET released == [held EXCEPT !.locked = FALSE]
        notInstalled == TranscriptionError(eid,
            "openai-whisper is not installed. Install it with 'pip install openai-whisper'.",
            "")
    IN  IF m # 0 THEN Outcomes("return", m, le, released, NoError, None)
        ELSE IF le # NoError THEN Outcomes("raise", m, le, released, le, None)
        ELSE IF ~w THEN
            Outcomes("raise", m, notInstalled, released, notInstalled, None)
        ELSE IF ProbeRaises(pref, torch, probe) THEN
            Outcomes("raise", m, le, released, Exc("cuda probe failed"), None)
        ELSE Outcomes("await_load", m, le, held, NoError,
                      SelectDevice(pref, torch, probe))

\* asyncio.Lock.acquire takes the lock without suspending only when it is not
\* locked and no waiter is queued.
LockFree(lock) == ~lock.locked /\ lock.waiters = <<>>

\* Lines 32-64 from the call of _ensure_model_loaded to its first suspension
\* or its end.
EnsureEntry(c, m, le, lock, w, pref, torch, probe, eid) ==
    LET fast == EnsureFast(m, le)
    IN  IF fast = "return" THEN Outcomes("return", m, le, lock, NoError, None)
        ELSE IF fast = "raise" THEN Outcomes("raise", m, le, lock, le, None)
        ELSE IF ~LockFree(lock) THEN
            Outcomes("await_lock", m, le,
                     [lock EXCEPT !.waiters = Append(@, c)], NoError, None)
        ELSE GuardedSection(m, le, [lock EXCEPT !.locked = TRUE],
                            w, pref, torch, probe, eid)

\* Lines 40-64 for a caller that waited for the lock and is woken with it.
LockAcquired(c, m, le, lock, w, pref, torch, probe, eid) ==
    GuardedSection(m, le, [locked |-> TRUE, waiters |-> RemoveFirst(lock.waiters, c)],
                   w, pref, torch, probe, eid)

\* LoadFinished that swallows the exception of load_model and returns.
LoadFinishedSwallowsFailure(load, le, lock, eid) ==
    Outcomes("return", IF load.ok THEN load.model ELSE 0, le,
             [lock EXCEPT !.locked = FALSE], NoError, None)

\* LoadFinished with the lock released by hand on the success path only.
LoadFinishedNoReleaseOnFailure(load, le, lock, eid) ==
    IF load.ok
    THEN Outcomes("return", load.model, le, [lock EXCEPT !.locked = FALSE], NoError, None)
    ELSE Outcomes("raise", 0, TranscriptionError(eid, load.exc.msg, ""), lock,
                  TranscriptionError(eid, load.exc.msg, ""), None)

\* Lines 66-72 once the dispatched load_model ended: load = [ok, model, exc].
LoadFinished(load, le, lock, eid) ==
    LET released == [lock EXCEPT !.locked = FALSE]
        failed == TranscriptionError(eid, load.exc.msg, "")
    IN  IF load.ok
        THEN Outcomes("return", load.model, le, released, NoError, None)
        ELSE Outcomes("raise", 0, failed, released, failed, None)

\* A caller cancelled while it waits for the lock (line 40) leaves the queue;
\* one cancelled while it waits for the load (line 67) leaves the `async with`
\* block with CancelledError, which `except Exception` does not catch.
EnsureCancelled(c, at, m, le, lock) ==
    IF at = "wait_lock"
    THEN Outcomes("cancelled", m, le,
                  [lock EXCEPT !.waiters = RemoveFirst(@, c)], CancelledError, None)
    ELSE Outcomes("cancelled", m, le,
                  [lock EXCEPT !.locked = FALSE], CancelledError, None)

----------------------------------------------------------------------------
\* TranscriptionService.transcribe_upload, segment by segment.

\* FilenameRejected testing `upload.filename is None` instead of its truth.
FilenameRejectedOnlyNone(fn) == fn = None

\* Line 82: an upload without a filename is rejected.
FilenameRejected(fn) == ~Truthy(fn)

\* Lines 82-85 (transcribe_upload) or line 77 (warm_up): the call up to the
\* first suspension or the end of _ensure_model_loaded.
CallEntry(c, k, fn, m, le, lock, w, pref, torch, probe, eid) ==
    IF k = "transcribe_upload" /\ FilenameRejected(fn)
    THEN Outcomes("reject", m, le, lock,
                  TranscriptionError(eid, "Uploaded file must have a filename.", ""),
                  None)
    ELSE EnsureEntry(c, m, le, lock, w, pref, torch, probe, eid)

\* ReadFinished without the emptiness check of lines 93-94.
ReadFinishedNoEmptyCheck(rd, file, eid) ==
    IF ~rd.ok THEN [exit |-> "raise", raised |-> rd.exc, file |-> file]
    ELSE [exit |-> "await_infer", raised |-> NoError,
          file |-> [file EXCEPT !.content = rd.bytes]]

\* Lines 92-95 once upload.read() ended: rd = [ok, bytes, exc].  The temporary
\* file was created (delete=False) at line 90, before the read; leaving the
\* `with` block only closes it.
ReadFinished(rd, file, eid) ==
    IF ~rd.ok THEN [exit |-> "raise", raised |-> rd.exc, file |-> file]
    ELSE IF rd.bytes = <<>> THEN
        [exit |-> "raise",
         raised |-> TranscriptionError(eid, "The uploaded file is empty.", ""),
         file |-> file]
    ELSE [exit |-> "await_infer", raised |-> NoError,
          file |-> [file EXCEPT !.content = rd.bytes]]

\* Lines 102-105: os.remove(temp_path); an OSError is swallowed.
Remove(file, rmOk) == IF rmOk THEN NoFile ELSE file

\* Lines 107-111: the text of the result, or None; falsy text is an error.
ExtractText(res) == IF res.dict /\ res.has_text THEN res.text ELSE <<>>

\* InferFinished with os.remove outside a try: its OSError replaces the error.
InferFinishedRemoveUnguarded(inf, file, rmOk, eid) ==
    IF ~rmOk
    THEN [exit |-> "raise", raised |-> Exc("os.remove failed"), value |-> <<>>,
          file |-> file, removes |-> 1]
    ELSE IF ~inf.ok THEN
        [exit |-> "raise",
         raised |-> TranscriptionError(eid, "Failed to transcribe audio: " \o inf.exc.msg,
                                       inf.exc.msg),
         value |-> <<>>, file |-> NoFile, removes |-> 1]
    ELSE IF ExtractText(inf.value) = <<>> THEN
        [exit |-> "raise",
         raised |-> TranscriptionError(eid,
                        "Unable to extract transcription from model output.", ""),
         value |-> <<>>, file |-> NoFile, removes |-> 1]
    ELSE [exit |-> "return", raised |-> NoError, value |-> Strip(ExtractText(inf.value)),
          file |-> NoFile, removes |-> 1]

\* Lines 98-111 once the dispatched transcribe ended: inf = [ok, value, exc].
InferFinished(inf, file, rmOk, eid) ==
    LET removed == Remove(file, rmOk)
        text == ExtractText(inf.value)
    IN  IF ~inf.ok THEN
            [exit |-> "raise",
             raised |-> TranscriptionError(eid, "Failed to transcribe audio: " \o inf.exc.msg,
                                           inf.exc.msg),
             value |-> <<>>, file |-> removed, removes |-> 1]
        ELSE IF text = <<>> THEN
            [exit |-> "raise",
             raised |-> TranscriptionError(eid,
                            "Unable to extract transcription from model output.", ""),
             value |-> <<>>, file |-> removed, removes |-> 1]
        ELSE [exit |-> "return", raised |-> NoError, value |-> Strip(text),
              file |-> removed, removes |-> 1]

\* A caller cancelled while it waits for upload.read() (line 92) leaves the
\* `with` block, which closes the file; one cancelled while it waits for the
\* inference (line 98) runs the `finally` block.
TranscribeCancelled(at, file, rmOk) ==
    IF at = "reading"
    THEN [file |-> file, removes |-> 0]
    ELSE [file |-> Remove(file, rmOk), removes |-> 1]

\* Line 90: NamedTemporaryFile(delete=False) creates the file, still empty.
CreateTemp == [exists |-> TRUE, content |-> <<>>]

----------------------------------------------------------------------------
\* app/main.py: the handlers around the service.  Each awaits one call of the
\* service and acts on how it ended (out is the call's outcome), without a
\* suspension point of its own.

NoResponse == [status |-> 0, text |-> <<>>, detail |-> "", escaped |-> NoError]

\* warm_up_model, lines 42-45: a TranscriptionError is logged as a warning;
\* any other exception leaves the startup hook.
warm_up_model(out) ==
    IF out.status = "returned" THEN [completed |-> TRUE, warning |-> "", escaped |-> NoError]
    ELSE IF out.err.type = "TranscriptionError"
    THEN [completed |-> TRUE, warning |-> out.err.msg, escaped |-> NoError]
    ELSE [completed |-> FALSE, warning |-> "", escaped |-> out.err]

\* transcribe_audio, lines 62-67: the transcript is returned as {"text": ...};
\* a TranscriptionError becomes HTTPException(400, detail=str(exc)); any other
\* exception leaves the handler.
transcribe_audio(out) ==
    IF out.status = "returned" THEN [NoResponse EXCEPT !.status = 200, !.text = out.value]
    ELSE IF out.err.type = "TranscriptionError"
    THEN [NoResponse EXCEPT !.status = 400, !.detail = out.err.msg]
    ELSE [NoResponse EXCEPT !.escaped = out.err]

----------------------------------------------------------------------------
\* The state machine

LoadExceptions == {Exc("device not found")}
ReadExceptions == {Exc("read failed")}
InferExceptions == {Exc("decode failed")}
ProbeOutcomes == {"True", "False", "raise"}

Init ==
    /\ whisper \in BOOLEAN
    /\ device_preference \in DevicePreferences
    /\ _model = 0
    /\ _load_error = NoError
    /\ _load_lock = [locked |-> FALSE, waiters |-> <<>>]
    /\ loadCalls = 0
    /\ pc = [c \in Calls |-> "idle"]
    /\ kind = [c \in Calls |-> "none"]
    /\ filename = [c \in Calls |-> None]
    /\ file_bytes = [c \in Calls |-> <<>>]
    /\ files = [c \in Calls |-> NoFile]
    /\ removeCalls = [c \in Calls |-> 0]
    /\ job = [c \in Calls |-> NoJob]
    /\ result = [c \in Calls |-> "none"]
    /\ ens = [c \in Calls |-> NoEns]
    /\ outcome = [c \in Calls |-> NoOutcome]

\* RunsOnLoop with whisper.load_model called directly in the coroutine.
RunsOnLoopDirectLoad(task) == task = "load"

\* Lines 67-69 and 98: load_model and transcribe are both handed to
\* loop.run_in_executor, so neither runs on the event loop's thread.
RunsOnLoop(task) == FALSE

\* The event loop can run a segment of a coroutine unless a blocking call
\* occupies its thread.
LoopFree == \A d \in Calls : job[d].status = "running" => ~RunsOnLoop(job[d].task)

\* StagesFile with the temporary file created before
\* _ensure_model_loaded is awaited.
StagesFileBeforeEnsure(exit, k) == k = "transcribe_upload" /\ exit \in {"return", "raise"}

\* Lines 85-90: transcribe_upload reaches NamedTemporaryFile only when
\* _ensure_model_loaded returned; warm_up never does.
StagesFile(exit, k) == k = "transcribe_upload" /\ exit = "return"

\* The effect on call c (entered through k) of a segment R of
\* _ensure_model_loaded; e is the call's record of its entry.  When
\* _ensure_model_loaded returns inside transcribe_upload the call goes on,
\* without suspending, to create its temporary file and await upload.read()
\* (lines 87-92).
AfterEnsure(c, k, R, e) ==
    /\ _model' = R.model
    /\ _load_error' = R.load_error
    /\ _load_lock' = R.lock
    /\ job' = [job EXCEPT ![c] =
                  IF R.exit = "await_load"
                  THEN [task |-> "load", status |-> "queued", device |-> R.device, n |-> 0]
                  ELSE NoJob]
    /\ ens' = [ens EXCEPT ![c] =
                  CASE R.exit = "reject" -> e
                    [] R.exit \in {"await_lock", "await_load"} -> [e EXCEPT !.status = "entered"]
                    [] R.exit = "return" -> [e EXCEPT !.status = "returned", !.model = R.model]
                    [] R.exit = "raise" -> [e EXCEPT !.status = "raised", !.err = R.raised]
                    [] R.exit = "cancelled" -> [e EXCEPT !.status = "cancelled"]]
    /\ pc' = [pc EXCEPT ![c] =
                  CASE R.exit \in {"reject", "raise", "cancelled"} -> "done"
                    [] R.exit = "await_lock" -> "wait_lock"
                    [] R.exit = "await_load" -> "loading"
                    [] R.exit = "return" -> IF k = "warm_up" THEN "done" ELSE "reading"]
    /\ outcome' = [outcome EXCEPT ![c] =
                  CASE R.exit \in {"reject", "raise"} ->
                           [status |-> "raised", err |-> R.raised, value |-> <<>>]
                    [] R.exit = "cancelled" ->
                           [status |-> "cancelled", err |-> R.raised, value |-> <<>>]
                    [] R.exit = "return" /\ k = "warm_up" ->
                           [status |-> "returned", err |-> NoError, value |-> <<>>]
                    [] OTHER -> @]
    /\ files' = [files EXCEPT ![c] = IF StagesFile(R.exit, k) THEN CreateTemp ELSE @]

\* A caller invokes warm_up() (k = "warm_up") or transcribe_upload(upload)
\* with upload.filename = fn.
Call(c, k, fn) ==
    /\ pc[c] = "idle"
    /\ LoopFree
    /\ kind' = [kind EXCEPT ![c] = k]
    /\ filename' = [filename EXCEPT ![c] = fn]
    /\ \E torch \in BOOLEAN, probe \in ProbeOutcomes :
          AfterEnsure(c, k,
              CallEntry(c, k, fn, _model, _load_error, _load_lock, whisper,
                        device_preference, torch, probe, c),
              NoEns)
    /\ UNCHANGED <<whisper, device_preference, loadCalls, file_bytes, removeCalls, result>>

WarmUp(c) == Call(c, "warm_up", None)

TranscribeUpload(c) == \E fn \in Filenames : Call(c, "transcribe_upload", fn)

\* The first waiter is woken once the lock is released and enters the
\* guarded section.
AcquireLock(c) ==
    /\ pc[c] = "wait_lock"
    /\ LoopFree
    /\ ~_load_lock.locked
    /\ Head(_load_lock.waiters) = c
    /\ \E torch \in BOOLEAN, probe \in ProbeOutcomes :
          AfterEnsure(c, kind[c],
              LockAcquired(c, _model, _load_error, _load_lock, whisper,
                           device_preference, torch, probe, c),
              ens[c])
    /\ UNCHANGED <<whisper, device_preference, loadCalls, kind, filename, file_bytes,
                   removeCalls, result>>

\* A worker thread of the executor picks the work item up: whisper.load_model
\* or _model.transcribe is invoked.
WorkerStart(c) ==
    /\ job[c].status = "queued"
    /\ job' = [job EXCEPT ![c] =
                  [job[c] EXCEPT !.status = "running",
                                 !.n = IF job[c].task = "load" THEN loadCalls + 1 ELSE 0]]
    /\ loadCalls' = IF job[c].task = "load" THEN loadCalls + 1 ELSE loadCalls
    /\ UNCHANGED <<whisper, device_preference, _model, _load_error, _load_lock, pc, kind, filename, file_bytes, files, removeCalls, result, ens, outcome>>

\* load_model ended, with a model or an exception, and the caller is resumed.
LoadDone(c) ==
    /\ pc[c] = "loading"
    /\ job[c].status = "running"
    /\ \E load \in {[ok |-> TRUE, model |-> job[c].n, exc |-> NoError]}
                    \cup {[ok |-> FALSE, model |-> 0, exc |-> x] : x \in LoadExceptions} :
          AfterEnsure(c, kind[c],
              LoadFinished(load, _load_error, _load_lock, c), ens[c])
    /\ UNCHANGED <<whisper, device_preference, loadCalls, kind, filename, file_bytes,
                   removeCalls, result>>

\* upload.read() ended, with the bytes or an exception, and the caller is
\* resumed; with bytes to stage it writes them and dispatches the inference.
ReadDone(c) ==
    /\ pc[c] = "reading"
    /\ LoopFree
    /\ \E rd \in {[ok |-> TRUE, bytes |-> b, exc |-> NoError] : b \in UploadContents}
                  \cup {[ok |-> FALSE, bytes |-> <<>>, exc |-> x] : x \in ReadExceptions} :
          LET R == ReadFinished(rd, files[c], c)
          IN  /\ file_bytes' = [file_bytes EXCEPT ![c] = rd.bytes]
              /\ files' = [files EXCEPT ![c] = R.file]
              /\ pc' = [pc EXCEPT ![c] = IF R.exit = "raise" THEN "done" ELSE "inferring"]
              /\ outcome' = [outcome EXCEPT ![c] =
                     IF R.exit = "raise"
                     THEN [status |-> "raised", err |-> R.raised, value |-> <<>>]
                     ELSE @]
              /\ job' = [job EXCEPT ![c] =
                     IF R.exit = "raise" THEN NoJob
                     ELSE [task |-> "infer", status |-> "queued", device |-> None, n |-> 0]]
    /\ UNCHANGED <<whisper, device_preference, _model, _load_error, _load_lock, loadCalls,
                   kind, filename, removeCalls, result, ens>>

\* _model.transcribe ended, with a result or an exception, and the caller is
\* resumed: it removes the staged file and extracts the text.
InferDone(c) ==
    /\ pc[c] = "inferring"
    /\ job[c].status = "running"
    /\ \E inf \in {[ok |-> TRUE, value |-> v, exc |-> NoError] : v \in InferenceResults}
                   \cup {[ok |-> FALSE, value |-> NotADict, exc |-> x] : x \in InferExceptions},
          rmOk \in BOOLEAN :
          LET R == InferFinished(inf, files[c], rmOk, c)
          IN  /\ result' = [result EXCEPT ![c] = IF inf.ok THEN "ok" ELSE "raised"]
              /\ files' = [files EXCEPT ![c] = R.file]
              /\ removeCalls' = [removeCalls EXCEPT ![c] = @ + R.removes]
              /\ outcome' = [outcome EXCEPT ![c] =
                     IF R.exit = "raise"
                     THEN [status |-> "raised", err |-> R.raised, value |-> <<>>]
                     ELSE [status |-> "returned", err |-> NoError, value |-> R.value]]
    /\ pc' = [pc EXCEPT ![c] = "done"]
    /\ job' = [job EXCEPT ![c] = NoJob]
    /\ UNCHANGED <<whisper, device_preference, _model, _load_error, _load_lock, loadCalls,
                   kind, filename, file_bytes, ens>>

\* The caller's task is cancelled while it is suspended inside
\* _ensure_model_loaded.  A work item not yet picked up is cancelled with it;
\* a running load_model goes on in its thread and its result is dropped.
CancelEnsure(c) ==
    /\ pc[c] \in {"wait_lock", "loading"}
    /\ LoopFree
    /\ AfterEnsure(c, kind[c],
           EnsureCancelled(c, pc[c], _model, _load_error, _load_lock), ens[c])
    /\ UNCHANGED <<whisper, device_preference, loadCalls, kind, filename, file_bytes,
                   removeCalls, result>>

\* The caller's task is cancelled while it is suspended in transcribe_upload
\* after _ensure_model_loaded returned.
CancelTranscribe(c) ==
    /\ pc[c] \in {"reading", "inferring"}
    /\ LoopFree
    /\ \E rmOk \in BOOLEAN :
          LET R == TranscribeCancelled(pc[c], files[c], rmOk)
          IN  /\ files' = [files EXCEPT ![c] = R.file]
              /\ removeCalls' = [removeCalls EXCEPT ![c] = @ + R.removes]
    /\ pc' = [pc EXCEPT ![c] = "done"]
    /\ job' = [job EXCEPT ![c] = NoJob]
    /\ outcome' = [outcome EXCEPT ![c] =
           [status |-> "cancelled", err |-> CancelledError, value |-> <<>>]]
    /\ UNCHANGED <<whisper, device_preference, _model, _load_error, _load_lock, loadCalls,
                   kind, filename, file_bytes, result, ens>>

Next ==
    \E c \in Calls :
        \/ WarmUp(c)
        \/ TranscribeUpload(c)
        \/ AcquireLock(c)
        \/ WorkerStart(c)
        \/ LoadDone(c)
        \/ ReadDone(c)
        \/ InferDone(c)
        \/ CancelEnsure(c)
        \/ CancelTranscribe(c)

Spec == Init /\ [][Next]_vars

----------------------------------------------------------------------------
\* Properties

\* _ensure_model_loaded ended for call c, by return or by an exception.
EnsureEnded(c) == ens[c].status \in {"returned", "raised"}

\* C1: when every caller went through _ensure_model_loaded and none was
\* cancelled, whisper.load_model (there is one when the library is imported)
\* was invoked exactly once; if it succeeded every caller returned and saw
\* the same _model, and if it failed every caller was raised the one
\* memoized _load_error object.
C1_ConcurrentCallersLoadOnce ==
    (whisper /\ \A c \in Calls : EnsureEnded(c)) =>
        /\ loadCalls = 1
        /\ _model # 0 =>
              \A c \in Calls : ens[c].status = "returned" /\ ens[c].model = _model
        /\ _model = 0 =>
              /\ _load_error # NoError
              /\ \A c \in Calls : ens[c].status = "raised" /\ ens[c].err = _load_error

\* C2: once _load_error is set it is never replaced, load_model is never
\* invoked again, and every caller whose _ensure_model_loaded ends from then
\* on (unless it is cancelled) is raised that same error object.
C2_FailureMemoized ==
    [][_load_error # NoError =>
          /\ _load_error' = _load_error
          /\ loadCalls' = loadCalls
          /\ \A c \in Calls :
                (~EnsureEnded(c) /\ EnsureEnded(c)') =>
                    ens'[c].status = "raised" /\ ens'[c].err = _load_error]_vars

\* A caller other than the one that constructed the memoized error was
\* raised it.
C2_Witness ==
    \E c \in Calls :
        /\ _load_error # NoError
        /\ _load_error.id # c
        /\ ens[c].status = "raised"
        /\ ens[c].err = _load_error

\* C3: whisper.load_model is invoked at most once per service object, also
\* when callers are cancelled at their suspension points.
C3_AtMostOneLoad == loadCalls <= 1

\* C4: once _model holds a loaded model it keeps that value in every step.
C4_ModelWriteOnce == [][_model # 0 => _model' = _model]_vars

\* The model is loaded, every call ended, and a transcription that used the
\* loaded model returned.
C4_Witness ==
    /\ _model # 0
    /\ \A c \in Calls : pc[c] = "done"
    /\ \E c \in Calls : kind[c] = "transcribe_upload" /\ outcome[c].status = "returned"
    /\ \E c \in Calls : ens[c].status = "returned" /\ job[c] = NoJob /\ loadCalls = 1

\* C5: a call that has ended has not left its staged file behind: the file
\* does not exist, or (deletion being best-effort) its removal was attempted.
C5_StagedFileRemoved ==
    \A c \in Calls : pc[c] = "done" => (~files[c].exists \/ removeCalls[c] >= 1)

\* C6: a call that failed on an empty upload did so after
\* _ensure_model_loaded returned and without a temporary file having been
\* created for it.
C6_EmptyRejectedBeforeStaging ==
    \A c \in Calls :
        (outcome[c].status = "raised" /\ outcome[c].err.msg = "The uploaded file is empty.") =>
            ens[c].status = "returned" /\ ~files[c].exists

\* C7: a transcribe_upload call whose filename is absent or empty has ended
\* with the validation error without entering _ensure_model_loaded, queueing
\* for the lock, dispatching work or creating a file, and the step that
\* rejects it leaves the loader's fields and every file alone.
C7_NoFilenameRejectedFirst ==
    /\ [](\A c \in Calls :
            (kind[c] = "transcribe_upload" /\ ~Truthy(filename[c])) =>
                /\ pc[c] = "done"
                /\ outcome[c].status = "raised"
                /\ outcome[c].err =
                       TranscriptionError(c, "Uploaded file must have a filename.", "")
                /\ ens[c].status = "none"
                /\ job[c] = NoJob
                /\ ~files[c].exists
                /\ \A i \in 1..Len(_load_lock.waiters) : _load_lock.waiters[i] # c)
    /\ [][\A c \in Calls :
            (pc[c] = "idle" /\ kind'[c] = "transcribe_upload" /\ ~Truthy(filename'[c])) =>
                UNCHANGED <<_model, _load_error, _load_lock, loadCalls, files, job>>]_vars

\* An upload with an empty filename was rejected while another caller holds
\* the lock for a load in flight.
C7_Witness ==
    \E c, d \in Calls :
        /\ kind[c] = "transcribe_upload"
        /\ filename[c] = ""
        /\ pc[c] = "done"
        /\ pc[d] = "loading"
        /\ _load_lock.locked

\* C8: a transcribe_upload call that returned gave a non-empty string.
C8_ReturnedTextNonEmpty ==
    \A c \in Calls :
        (kind[c] = "transcribe_upload" /\ outcome[c].status = "returned") =>
            Len(outcome[c].value) > 0

\* C9: a call whose dispatched inference raised made exactly one os.remove
\* call and ended with the TranscriptionError that wraps the cause, whether
\* or not the removal itself failed.
C9_InferenceFailureCleansUp ==
    \A c \in Calls :
        result[c] = "raised" =>
            /\ pc[c] = "done"
            /\ removeCalls[c] = 1
            /\ outcome[c].status = "raised"
            /\ \E x \in InferExceptions :
                  outcome[c].err =
                      TranscriptionError(c, "Failed to transcribe audio: " \o x.msg, x.msg)

\* The inference raised and the removal failed: the file is still there and
\* the call ended with the inference error.
C9_Witness ==
    \E c \in Calls :
        /\ result[c] = "raised"
        /\ files[c].exists
        /\ outcome[c].err.cause = "decode failed"

\* C10: every exception _ensure_model_loaded raises is a TranscriptionError
\* and is the memoized _load_error.
C10_InitFailuresMemoized ==
    \A c \in Calls :
        ens[c].status = "raised" =>
            ens[c].err.type = "TranscriptionError" /\ ens[c].err = _load_error

\* The call has ended and its task was not cancelled.
Ended(c) == pc[c] = "done" /\ outcome[c].status # "cancelled"

\* C11: whatever the outcome of the loader's initialization, the startup
\* hook warm_up_model completes and no exception leaves it.
C11_WarmUpNeverAborts ==
    \A c \in Calls :
        (kind[c] = "warm_up" /\ Ended(c)) =>
            /\ warm_up_model(outcome[c]).completed
            /\ warm_up_model(outcome[c]).escaped = NoError

\* C12: when _ensure_model_loaded raises inside transcribe_upload the call
\* ends with that very exception object (the memoized _load_error when it is
\* a TranscriptionError) and has read nothing, staged nothing, dispatched no
\* inference and removed nothing.
C12_LoaderFailurePropagates ==
    \A c \in Calls :
        (kind[c] = "transcribe_upload" /\ ens[c].status = "raised") =>
            /\ pc[c] = "done"
            /\ outcome[c].status = "raised"
            /\ outcome[c].err = ens[c].err
            /\ ens[c].err.type = "TranscriptionError" => ens[c].err = _load_error
            /\ ~files[c].exists
            /\ file_bytes[c] = <<>>
            /\ job[c] = NoJob
            /\ result[c] = "none"
            /\ removeCalls[c] = 0

\* A transcribe_upload call ended with the error another call memoized.
C12_Witness ==
    \E c \in Calls :
        /\ kind[c] = "transcribe_upload"
        /\ ens[c].status = "raised"
        /\ outcome[c].err = _load_error
        /\ _load_error.id # c
        /\ _load_error.id # 0

\* A blocking call (load_model or transcribe) is running on a worker thread.
InFlight == \E d \in Calls : job[d].status = "running"

\* C13: while a load or an inference is in flight the event loop still
\* accepts and progresses other requests: a new call can start, a call
\* waiting for its upload can go on, an upload without a filename is
\* rejected at once, and a caller that finds _model set passes through
\* _ensure_model_loaded without touching the lock.
C13_LoopNeverBlocked ==
    /\ [](InFlight =>
            \A c \in Calls :
                /\ pc[c] = "idle" =>
                      (ENABLED WarmUp(c) /\ ENABLED Call(c, "transcribe_upload", None))
                /\ pc[c] = "reading" => ENABLED ReadDone(c))
    /\ [][\A c \in Calls :
            (InFlight /\ pc[c] = "idle" /\ pc'[c] # "idle") =>
                /\ (kind'[c] = "transcribe_upload" /\ ~Truthy(filename'[c])) =>
                      (pc'[c] = "done" /\ outcome'[c].status = "raised")
                /\ (_model # 0 /\ ~(kind'[c] = "transcribe_upload" /\ ~Truthy(filename'[c]))) =>
                      (ens'[c].status = "returned" /\ _load_lock' = _load_lock)]_vars

\* While one caller's load_model runs on a worker thread with the lock held,
\* another caller was accepted and waits for the lock.
C13_Witness ==
    \E c, d \in Calls :
        /\ pc[d] = "loading"
        /\ job[d].status = "running"
        /\ _load_lock.locked
        /\ pc[c] = "wait_lock"

\* Some caller is inside the `async with self._load_lock` block.
InsideGuard == \E c \in Calls : pc[c] = "loading"

\* C14: the lock is held exactly while some caller is suspended inside the
\* guarded section, by one caller at most: every way out of the section
\* (return, exception, cancellation) has released it.
C14_GuardReleased ==
    /\ _load_lock.locked <=> InsideGuard
    /\ \A c, d \in Calls : (pc[c] = "loading" /\ pc[d] = "loading") => c = d

\* A load failed, its caller left the guarded section with the error it
\* constructed, and the lock is free.
C14_Witness ==
    \E c \in Calls :
        /\ whisper
        /\ ens[c].status = "raised"
        /\ ens[c].err = _load_error
        /\ _load_error.id = c
        /\ ~_load_lock.locked

\* C15: every transcribe_upload call that ended is answered by
\* transcribe_audio with 200 and the transcript or with 400 and the failure's
\* message; no exception leaves the handler.
C15_BoundaryTranslatesFailures ==
    \A c \in Calls :
        (kind[c] = "transcribe_upload" /\ Ended(c)) =>
            LET r == transcribe_audio(outcome[c])
            IN  /\ r.escaped = NoError
                /\ \/ r.status = 200 /\ r.text = outcome[c].value
                   \/ r.status = 400 /\ r.detail = outcome[c].err.msg

\* C16: a caller whose _ensure_model_loaded returned saw the model a
\* completed load_model call gave, which is the one _model holds; _model is
\* stored by the caller that holds the lock for a running load, in the step
\* in which it releases the lock, and nobody has returned before that.
C16_ReturnSeesLoadedModel ==
    /\ [](\A c \in Calls :
            ens[c].status = "returned" =>
                /\ ens[c].model # 0
                /\ ens[c].model = _model
                /\ ens[c].model <= loadCalls)
    /\ [][_model' # _model =>
            /\ _load_lock.locked
            /\ ~_load_lock'.locked
            /\ \A c \in Calls : ens[c].status # "returned"
            /\ \E c \in Calls :
                  /\ pc[c] = "loading"
                  /\ job[c].status = "running"
                  /\ _model' = job[c].n
                  /\ ens'[c].status = "returned"]_vars

\* One caller loaded the model and another, which waited for the lock,
\* returned with the same model.
C16_Witness ==
    \E c, d \in Calls :
        /\ c # d
        /\ ens[c].status = "returned"
        /\ ens[d].status = "returned"
        /\ ens[c].model = ens[d].model
        /\ kind[c] = "warm_up"
        /\ kind[d] = "warm_up"
        /\ loadCalls = 1

\* The inference of call c was dispatched (line 98).
InferenceDispatched(c) == job[c].task = "infer" \/ result[c] # "none"

\* C17: a call's inference is dispatched only after its filename passed the
\* check, _ensure_model_loaded returned with _model set, and upload.read()
\* gave non-empty bytes; while the inference is pending or running the
\* call's staged file holds exactly those bytes; and a call that has ended
\* stays ended with the outcome it has.
C17_StagesInOrder ==
    /\ [](\A c \in Calls :
            /\ InferenceDispatched(c) =>
                  /\ kind[c] = "transcribe_upload"
                  /\ Truthy(filename[c])
                  /\ ens[c].status = "returned"
                  /\ _model # 0
                  /\ file_bytes[c] # <<>>
            /\ job[c].task = "infer" =>
                  /\ pc[c] = "inferring"
                  /\ files[c] = [exists |-> TRUE, content |-> file_bytes[c]]
            /\ pc[c] \in {"reading", "inferring"} => ens[c].status = "returned"
            /\ pc[c] \in {"wait_lock", "loading"} => ens[c].status = "entered")
    /\ [][\A c \in Calls :
            pc[c] = "done" =>
                /\ pc'[c] = "done"
                /\ outcome'[c] = outcome[c]
                /\ ens'[c] = ens[c]
                /\ job'[c] = NoJob]_vars

\* The inference of a call runs on the bytes of its upload, staged in its
\* file, while the other call has already succeeded.
C17_Witness ==
    \E c, d \in Calls :
        /\ job[c].task = "infer"
        /\ job[c].status = "running"
        /\ files[c].content = <<2, 3>>
        /\ outcome[d].status = "returned"
        /\ kind[d] = "transcribe_upload"

\* C18: _model and _load_error are never both set, and the loader never
\* goes from ready to failed or from failed to ready.
C18_ReadyXorFailed ==
    /\ [](~(_model # 0 /\ _load_error # NoError))
    /\ [][/\ _model # 0 => (_model' # 0 /\ _load_error' = NoError)
          /\ _load_error # NoError => (_load_error' # NoError /\ _model' = 0)]_vars

\* The loader is failed after two load_model calls: the first caller was
\* cancelled, the second one's load raised.
C18_Witness ==
    /\ _load_error # NoError
    /\ _model = 0
    /\ loadCalls = 2
    /\ ~_load_lock.locked

----------------------------------------------------------------------------
\* Liveness.  The event loop runs every coroutine that is ready (a woken
\* waiter takes the lock, a caller whose work item ended is resumed), the
\* executor starts every work item handed to it, and load_model and
\* transcribe are assumed to end.  Cancellation and the arrival of calls
\* are up to the environment and are not forced.
Fairness ==
    \A c \in Calls :
        /\ WF_vars(AcquireLock(c))
        /\ WF_vars(WorkerStart(c))
        /\ WF_vars(LoadDone(c))
        /\ WF_vars(ReadDone(c))
        /\ WF_vars(InferDone(c))

FairSpec == Spec /\ Fairness

\* The task of some caller was cancelled inside _ensure_model_loaded.
SomeEnsureCancelled == \E d \in Calls : ens[d].status = "cancelled"

\* Termination of _ensure_model_loaded: every caller that entered it leaves
\* it, and in executions where no caller is cancelled inside it a caller
\* that waits for the lock ends by returning with _model set or by being
\* raised the memoized _load_error.
EnsureTerminates ==
    \A c \in Calls :
        /\ (ens[c].status = "entered") ~> (ens[c].status # "entered")
        /\ (pc[c] = "wait_lock") ~>
              \/ ens[c].status = "returned" /\ _model # 0 /\ ens[c].model = _model
              \/ ens[c].status = "raised" /\ ens[c].err = _load_error
                    /\ _load_error # NoError
              \/ SomeEnsureCancelled

\* C19: with a terminating load and a fair loop, every caller that entered
\* _ensure_model_loaded leaves it, and a caller that waits for the lock
\* (and is not itself cancelled) ends by returning with _model set or by
\* being raised the memoized _load_error.
C19_WaitersEndReadyOrMemoized ==
    \A c \in Calls :
        /\ (ens[c].status = "entered") ~> (ens[c].status # "entered")
        /\ (pc[c] = "wait_lock") ~>
              \/ ens[c].status = "returned" /\ _model # 0 /\ ens[c].model = _model
              \/ ens[c].status = "raised" /\ ens[c].err = _load_error
                    /\ _load_error # NoError
              \/ ens[c].status = "cancelled"

====
